---- MODULE Spec2Model ----
(***************************************************************************)
(* The journal-matching pipeline of notebooks/journals.ipynb as a state    *)
(* machine.  A state is the notebook session: the external stores          *)
(* (document and serial collections, the subscription CSV, the data        *)
(* directory), the Python names bound so far, the registered views and the *)
(* position in the notebook.  One action per code cell that changes the    *)
(* session; cells run in document order.                                   *)
(*                                                                         *)
(* Values.  A string is a sequence of one-character strings.  SQL NULL and *)
(* Python None are the sentinel Null; the four-letter text 'null' the      *)
(* notebook compares against is the ordinary string NullStr.  A DataFrame  *)
(* is a record [columns, rows]: its column names and its rows in one       *)
(* canonical order (Spark leaves the order open unless a sort fixed it).   *)
(***************************************************************************)
EXTENDS Integers, Sequences, FiniteSets, TLC

VARIABLES
    pc,                       \* the next code cell to run
    run,                      \* how many times the notebook has been started
    errors,                   \* the cells of this run that raised
    out,                      \* the rows of the last table a cell displayed
    document,                 \* MongoDB collection scopus.document
    serial,                   \* MongoDB collection scopus.serial
    csv,                      \* the Serial Solutions export, as read
    disk,                     \* ../data: path -> [exists, table]
    views,                    \* temp views registered with the session
    bound,                    \* Python names bound in the session
    serial_df,
    ref_journal_df,
    ss_df,
    ref_journals,
    cited_not_subscribed,
    journal_df,
    published_not_subscribed

vars == <<pc, run, errors, out, document, serial, csv, disk, views, bound,
          serial_df, ref_journal_df, ss_df, ref_journals, cited_not_subscribed,
          journal_df, published_not_subscribed>>

-----------------------------------------------------------------------------
(* Bounds of the model *)

MaxDocs == 2
MaxRefs == 2
MaxSerials == 2
MaxSubs == 2
MaxLen == 5
MaxRuns == 2

-----------------------------------------------------------------------------
(* Strings, NULL and three-valued logic *)

Null == <<"NULL">>
NullStr == <<"n", "u", "l", "l">>

UpperCase == <<"A", "B", "C", "D", "E", "F", "G", "H", "I", "J", "K", "L", "M",
               "N", "O", "P", "Q", "R", "S", "T", "U", "V", "W", "X", "Y", "Z">>
LowerCase == <<"a", "b", "c", "d", "e", "f", "g", "h", "i", "j", "k", "l", "m",
               "n", "o", "p", "q", "r", "s", "t", "u", "v", "w", "x", "y", "z">>

LowerChar(c) ==
    IF \E i \in DOMAIN UpperCase : UpperCase[i] = c
    THEN LowerCase[CHOOSE i \in DOMAIN UpperCase : UpperCase[i] = c]
    ELSE c

\* pyspark.sql.functions.lower: NULL stays NULL
lower(s) == IF s = Null THEN Null ELSE [i \in DOMAIN s |-> LowerChar(s[i])]

\* Java's replaceAll of the pattern ' & ': one left-to-right scan, each match
\* replaced, the scan resuming after the match
RECURSIVE ReplaceAmp(_)
ReplaceAmp(s) ==
    IF Len(s) < 3 THEN s
    ELSE IF SubSeq(s, 1, 3) = <<" ", "&", " ">>
         THEN <<" ", "a", "n", "d", " ">> \o ReplaceAmp(SubSeq(s, 4, Len(s)))
         ELSE <<Head(s)>> \o ReplaceAmp(Tail(s))

\* regexp_replace('Title', ' & ', ' and ')
regexp_replace(s) == IF s = Null THEN Null ELSE ReplaceAmp(s)

\* SQL comparison: "T", "F" or "U" (unknown, when an operand is NULL)
Eq3Plain(a, b) == IF a = b THEN "T" ELSE "F"
Eq3(a, b) == IF a = Null \/ b = Null THEN "U" ELSE IF a = b THEN "T" ELSE "F"
Not3(p) == CASE p = "T" -> "F" [] p = "F" -> "T" [] OTHER -> "U"
Neq3(a, b) == Not3(Eq3(a, b))
And3(p, q) == IF p = "F" \/ q = "F" THEN "F" ELSE IF p = "T" /\ q = "T" THEN "T" ELSE "U"
Or3(p, q) == IF p = "T" \/ q = "T" THEN "T" ELSE IF p = "F" /\ q = "F" THEN "F" ELSE "U"

-----------------------------------------------------------------------------
(* DataFrame operations *)

NoFrame == [columns |-> {}, rows |-> <<>>]

Min(a, b) == IF a < b THEN a ELSE b

RECURSIVE Flatten(_)
Flatten(ss) == IF Len(ss) = 0 THEN <<>> ELSE Head(ss) \o Flatten(Tail(ss))

\* the rows of s for which keep[i] holds, in order
RECURSIVE Keep(_, _)
Keep(s, keep) ==
    IF Len(s) = 0 THEN <<>>
    ELSE LET n == Len(s)
             front == Keep(SubSeq(s, 1, n - 1), keep)
         IN  IF keep[n] THEN Append(front, s[n]) ELSE front

DistinctUniqueOnly(s) ==
    Keep(s, [i \in DOMAIN s |-> Cardinality({j \in DOMAIN s : s[j] = s[i]}) = 1])
\* the distinct rows of s, each at its first occurrence
RECURSIVE Distinct(_)
Distinct(s) ==
    IF Len(s) = 0 THEN <<>>
    ELSE LET n == Len(s)
             front == Distinct(SubSeq(s, 1, n - 1))
         IN  IF \E i \in DOMAIN front : front[i] = s[n] THEN front
             ELSE Append(front, s[n])

Occurrences(s, r) == Cardinality({i \in DOMAIN s : s[i] = r})

\* DataFrame.show(n): the first n rows
show(rows, n) == SubSeq(rows, 1, Min(n, Len(rows)))

\* DataFrame.sort(c, ascending=False): any arrangement of the rows with c
\* non-increasing (rows with equal c come in an order Spark does not fix)
SortDesc(rows, c) ==
    LET n == Len(rows)
        perms == {f \in [1..n -> 1..n] : \A i, j \in 1..n : i # j => f[i] # f[j]}
    IN  {t \in {[i \in 1..n |-> rows[f[i]]] : f \in perms} :
            \A i \in 1..(n - 1) : t[i][c] >= t[i + 1][c]}

-----------------------------------------------------------------------------
(* Python values crossing the UDF boundary: None, a list, or a tuple *)

PyNone == [kind |-> "none", items |-> <<>>]
PyList(s) == [kind |-> "list", items |-> s]
PyTuple(s) == [kind |-> "tuple", items |-> s]
isinstance_list(x) == x.kind = "list"

\* zip(x, y): pairs by position, as long as the shorter list
zip(x, y) ==
    [i \in 1..Min(Len(x.items), Len(y.items)) |-> PyTuple(<<x.items[i], y.items[i]>>)]

\* my_zip: the zip of two lists, else the two-element list [x, y]
my_zip(x, y) ==
    IF isinstance_list(x) /\ isinstance_list(y) THEN zip(x, y) ELSE <<x, y>>

\* An element of the UDF's result as StructType(first, second): None is a null
\* struct (both fields read as NULL), a two-element tuple or list gives the
\* two fields, anything else cannot be converted
Convertible(e) == e.kind = "none" \/ Len(e.items) = 2
ToStruct(e) ==
    IF e.kind = "none" THEN [first |-> Null, second |-> Null]
    ELSE [first |-> e.items[1], second |-> e.items[2]]

\* zip_ = udf(lambda x, y: list(my_zip(x, y)), ArrayType(StructType(...)))
zip_(x, y) == LET l == my_zip(x, y) IN [i \in DOMAIN l |-> ToStruct(l[i])]
zip_raises(x, y) == \E e \in {my_zip(x, y)[i] : i \in DOMAIN my_zip(x, y)} : ~Convertible(e)

-----------------------------------------------------------------------------
(* The queries and transformations of the cells *)

Top5 == 5
Top25 == 25

\* SELECT ... FROM serial WHERE `prism:aggregationType` = 'journal', and the
\* serial_lc column
SerialFrame(coll) ==
    LET js == Keep(coll, [i \in DOMAIN coll |-> coll[i].aggregationType = "journal"])
    IN  [columns |-> {"serial_id", "serial", "serial_issn", "serial_eissn",
                      "open_access", "serial_lc"},
         rows |-> [i \in DOMAIN js |->
                     [serial_id |-> js[i].source_id, serial |-> js[i].title,
                      serial_issn |-> js[i].issn, serial_eissn |-> js[i].eIssn,
                      open_access |-> js[i].openaccess,
                      serial_lc |-> lower(js[i].title)]]]

JournalDocs(coll) ==
    Keep(coll, [i \in DOMAIN coll |-> coll[i].aggregationType = "Journal"])

\* SELECT references["sourcetitle"] AS ref_journal, references['title'] AS
\* ref_title FROM document WHERE coredata["prism:aggregationType"]="Journal"
RefQuery(coll) ==
    LET ds == JournalDocs(coll)
    IN  [columns |-> {"ref_journal", "ref_title"},
         rows |-> [i \in DOMAIN ds |->
                     [ref_journal |-> ds[i].sourcetitle, ref_title |-> ds[i].title]]]

PyAndFirst(a, b) == a
\* Python's `a and b` on two strings: a when a is empty, else b
PyAnd(a, b) == IF a = "" THEN a ELSE b

\* the three condition strings of the reference filter, combined as written
RefFilterFirst == "ref_journal_lc!='null'"
RefFilterArg ==
    PyAnd(PyAnd("ref_journal_lc!='null'", "ref_title_lc!='null'"),
          "ref_journal_lc!=ref_title_lc")

\* DataFrame.filter(condition string) on a row with the two _lc columns
SqlCond(cond, r) ==
    CASE cond = "ref_journal_lc!='null'" -> Neq3(r.ref_journal_lc, NullStr)
      [] cond = "ref_title_lc!='null'" -> Neq3(r.ref_title_lc, NullStr)
      [] cond = "ref_journal_lc!=ref_title_lc" -> Neq3(r.ref_journal_lc, r.ref_title_lc)

\* withColumn("tmp", zip_(...)).withColumn("tmp", explode("tmp")).select(...)
Exploded(rows) ==
    Flatten([i \in DOMAIN rows |->
               LET tmp == zip_(rows[i].ref_journal, rows[i].ref_title)
               IN  [k \in DOMAIN tmp |->
                      [ref_journal |-> tmp[k].first, ref_title |-> tmp[k].second]]])

\* the casts to string and the two lower-cased columns
WithLc(rows) ==
    [i \in DOMAIN rows |->
        [ref_journal |-> rows[i].ref_journal, ref_title |-> rows[i].ref_title,
         ref_journal_lc |-> lower(rows[i].ref_journal),
         ref_title_lc |-> lower(rows[i].ref_title)]]

RefFilterSourceOnly(rows) ==
    LET sel == [i \in DOMAIN rows |->
                  [ref_journal |-> rows[i].ref_journal,
                   ref_journal_lc |-> rows[i].ref_journal_lc]]
    IN  Keep(sel, [i \in DOMAIN sel |-> SqlCond("ref_journal_lc!='null'", sel[i]) = "T"])

\* .filter(<the combined condition>).select('ref_journal', 'ref_journal_lc')
\* .filter("ref_journal_lc!='null'")
RefFilter(rows) ==
    LET f1 == Keep(rows, [i \in DOMAIN rows |-> SqlCond(RefFilterArg, rows[i]) = "T"])
        sel == [i \in DOMAIN f1 |->
                  [ref_journal |-> f1[i].ref_journal,
                   ref_journal_lc |-> f1[i].ref_journal_lc]]
    IN  Keep(sel, [i \in DOMAIN sel |-> SqlCond("ref_journal_lc!='null'", sel[i]) = "T"])

\* groupBy(keys).count(): one row per distinct key row, with its multiplicity
GroupKeys(rows) == Distinct(rows)

RefTally(rows) ==
    LET keys == GroupKeys(rows)
    IN  [k \in DOMAIN keys |->
            [ref_journal |-> keys[k].ref_journal,
             ref_journal_lc |-> keys[k].ref_journal_lc,
             count |-> Occurrences(rows, keys[k])]]

Project(rows, cols) == [i \in DOMAIN rows |-> [c \in cols |-> rows[i][c]]]

\* DataFrame.join(right, on, how): every left row with every right row the
\* condition holds for (on[i][j] is the condition on left row i and right row
\* j); a left row without one is kept, the right side NULL, when the join is
\* left_outer and dropped when it is inner
JoinInnerOnly(L, R, on, how, nullRight) ==
    Flatten([i \in DOMAIN L |->
               LET hit == Keep(R, [j \in DOMAIN R |-> on[i][j] = "T"])
               IN  [j \in DOMAIN hit |-> L[i] @@ hit[j]]])
JoinFirstMatch(L, R, on, how, nullRight) ==
    Flatten([i \in DOMAIN L |->
               LET hit == Keep(R, [j \in DOMAIN R |-> on[i][j] = "T"])
               IN  IF Len(hit) = 0
                   THEN IF how = "left_outer" THEN <<L[i] @@ nullRight>> ELSE <<>>
                   ELSE <<L[i] @@ hit[1]>>])
Join(L, R, on, how, nullRight) ==
    Flatten([i \in DOMAIN L |->
               LET hit == Keep(R, [j \in DOMAIN R |-> on[i][j] = "T"])
               IN  IF Len(hit) = 0 /\ how = "left_outer"
                   THEN <<L[i] @@ nullRight>>
                   ELSE [j \in DOMAIN hit |-> L[i] @@ hit[j]]])

NullSerial ==
    [serial_id |-> Null, serial |-> Null, serial_issn |-> Null,
     serial_eissn |-> Null, open_access |-> Null, serial_lc |-> Null]
NullSubscription == [Title |-> Null, ISSN |-> Null, eISSN |-> Null]
SubscriptionColumns == {"Title", "ISSN", "eISSN"}

\* ref_journal_df.ref_journal_lc == serial_df.serial_lc
RefSerialOn(l, s) == Eq3(l.ref_journal_lc, s.serial_lc)
\* journal_df.journal_lc == serial_df.serial_lc
PubSerialOn(l, s) == Eq3(l.journal_lc, s.serial_lc)

\* the subscription join condition of the citation variant
RefSubscriptionOnNoCross(l, s) ==
    Or3(Or3(Eq3(l.ref_journal_lc, s.Title),
            And3(Neq3(l.serial_issn, NullStr), Eq3(l.serial_issn, s.ISSN))),
        And3(Neq3(l.serial_eissn, NullStr), Eq3(l.serial_eissn, s.eISSN)))
RefSubscriptionOnNullEq(l, s) ==
    Or3(Or3(Eq3Plain(l.ref_journal_lc, s.Title),
            And3(Not3(Eq3Plain(l.serial_issn, NullStr)),
                 Or3(Eq3Plain(l.serial_issn, s.ISSN), Eq3Plain(l.serial_issn, s.eISSN)))),
        And3(Not3(Eq3Plain(l.serial_eissn, NullStr)),
             Or3(Eq3Plain(l.serial_eissn, s.eISSN), Eq3Plain(l.serial_eissn, s.ISSN))))
RefSubscriptionOn(l, s) ==
    Or3(Or3(Eq3(l.ref_journal_lc, s.Title),
            And3(Neq3(l.serial_issn, NullStr),
                 Or3(Eq3(l.serial_issn, s.ISSN), Eq3(l.serial_issn, s.eISSN)))),
        And3(Neq3(l.serial_eissn, NullStr),
             Or3(Eq3(l.serial_eissn, s.eISSN), Eq3(l.serial_eissn, s.ISSN))))

PubSubscriptionOnNoCross(l, s) ==
    Or3(Or3(Eq3(l.journal_lc, s.Title),
            And3(Neq3(l.serial_issn, NullStr), Eq3(l.serial_issn, s.ISSN))),
        And3(Neq3(l.serial_eissn, NullStr), Eq3(l.serial_eissn, s.eISSN)))
\* the subscription join condition of the publication variant
PubSubscriptionOn(l, s) ==
    Or3(Or3(Eq3(l.journal_lc, s.Title),
            And3(Neq3(l.serial_issn, NullStr),
                 Or3(Eq3(l.serial_issn, s.ISSN), Eq3(l.serial_issn, s.eISSN)))),
        And3(Neq3(l.serial_eissn, NullStr),
             Or3(Eq3(l.serial_eissn, s.eISSN), Eq3(l.serial_eissn, s.ISSN))))

\* select('Title', 'ISSN', 'eISSN') with Title lower-cased and ' & ' replaced
SubscriptionTitles(rows) ==
    [i \in DOMAIN rows |->
        [Title |-> regexp_replace(lower(rows[i].Title)),
         ISSN |-> rows[i].ISSN, eISSN |-> rows[i].eISSN]]

\* SELECT coredata["source-id"] AS journal_id, coredata["prism:publicationName"]
\* AS journal ... and the journal_lc column
PubQuery(coll) ==
    LET ds == JournalDocs(coll)
    IN  [columns |-> {"journal_id", "journal", "journal_lc"},
         rows |-> [i \in DOMAIN ds |->
                     [journal_id |-> ds[i].source_id,
                      journal |-> ds[i].publicationName,
                      journal_lc |-> lower(ds[i].publicationName)]]]

PubTally(rows) ==
    LET keyrows == Project(rows, {"journal", "journal_lc"})
        keys == Distinct(keyrows)
    IN  [k \in DOMAIN keys |->
            [journal |-> keys[k].journal, journal_lc |-> keys[k].journal_lc,
             count |-> Occurrences(keyrows, keys[k])]]

-----------------------------------------------------------------------------
(* The session and its cells, in document order *)

RefPath == "../data/ref_journals.parquet"
PubPath == "../data/pub_journals.parquet"
Paths == {RefPath, PubPath}

frames == <<serial_df, ref_journal_df, ss_df, ref_journals, cited_not_subscribed,
            journal_df, published_not_subscribed>>
stores == <<document, serial, csv>>

\* a cell that raises: nothing it would have assigned is assigned
Fail(cell, next) ==
    /\ pc' = next
    /\ errors' = errors \cup {cell}
    /\ UNCHANGED <<run, out, stores, disk, views, bound, frames>>

\* from pyspark.sql ... import *
Imports ==
    /\ pc = "Imports"
    /\ pc' = "StartSession"
    /\ bound' = bound \cup {"SparkSession", "functions", "types", "os"}
    /\ UNCHANGED <<run, errors, out, stores, disk, views, frames>>

\* spark = SparkSession.builder.appName("ScopusAnalysis").getOrCreate()
StartSession ==
    /\ pc = "StartSession"
    /\ IF "SparkSession" \in bound
       THEN /\ pc' = "LoadDocument"
            /\ bound' = bound \cup {"spark"}
            /\ UNCHANGED <<run, errors, out, stores, disk, views, frames>>
       ELSE Fail("StartSession", "LoadDocument")

\* spark.read...load().createOrReplaceTempView("document")
LoadDocument ==
    /\ pc = "LoadDocument"
    /\ IF "spark" \in bound
       THEN /\ pc' = "LoadSerial"
            /\ views' = views \cup {"document"}
            /\ UNCHANGED <<run, errors, out, stores, disk, bound, frames>>
       ELSE Fail("LoadDocument", "LoadSerial")

\* the serial view and serial_df
LoadSerial ==
    /\ pc = "LoadSerial"
    /\ IF "spark" \in bound
       THEN /\ pc' = "ShowSerial"
            /\ views' = views \cup {"serial"}
            /\ serial_df' = SerialFrame(serial)
            /\ bound' = bound \cup {"serial_df"}
            /\ UNCHANGED <<run, errors, out, stores, disk, ref_journal_df, ss_df,
                           ref_journals, cited_not_subscribed, journal_df,
                           published_not_subscribed>>
       ELSE Fail("LoadSerial", "ShowSerial")

\* serial_df.drop('serial_lc').show(5, False)
ShowSerial ==
    /\ pc = "ShowSerial"
    /\ IF "serial_df" \in bound
       THEN /\ pc' = "SelectRefs"
            /\ out' = show(Project(serial_df.rows, serial_df.columns \ {"serial_lc"}), Top5)
            /\ UNCHANGED <<run, errors, stores, disk, views, bound, frames>>
       ELSE Fail("ShowSerial", "SelectRefs")

\* ref_journal_df = spark.sql(...)
SelectRefs ==
    /\ pc = "SelectRefs"
    /\ IF "spark" \in bound /\ "document" \in views
       THEN /\ pc' = "DefineZip"
            /\ ref_journal_df' = RefQuery(document)
            /\ bound' = bound \cup {"ref_journal_df"}
            /\ UNCHANGED <<run, errors, out, stores, disk, views, serial_df, ss_df,
                           ref_journals, cited_not_subscribed, journal_df,
                           published_not_subscribed>>
       ELSE Fail("SelectRefs", "DefineZip")

\* def my_zip ...; zip_ = udf(...)
DefineZip ==
    /\ pc = "DefineZip"
    /\ IF "functions" \in bound /\ "types" \in bound
       THEN /\ pc' = "ZipAndFilter"
            /\ bound' = bound \cup {"my_zip", "zip_"}
            /\ UNCHANGED <<run, errors, out, stores, disk, views, frames>>
       ELSE Fail("DefineZip", "ZipAndFilter")

\* zip, explode, cast, lower-case and filter the reference pairs
ZipAndFilter ==
    /\ pc = "ZipAndFilter"
    /\ IF /\ {"ref_journal_df", "zip_"} \subseteq bound
          /\ {"ref_journal", "ref_title"} \subseteq ref_journal_df.columns
          /\ \A i \in DOMAIN ref_journal_df.rows :
                ~zip_raises(ref_journal_df.rows[i].ref_journal,
                            ref_journal_df.rows[i].ref_title)
       THEN /\ pc' = "ShowRefs"
            /\ ref_journal_df' =
                  [columns |-> {"ref_journal", "ref_journal_lc"},
                   rows |-> RefFilter(WithLc(Exploded(ref_journal_df.rows)))]
            /\ UNCHANGED <<run, errors, out, stores, disk, views, bound, serial_df,
                           ss_df, ref_journals, cited_not_subscribed, journal_df,
                           published_not_subscribed>>
       ELSE Fail("ZipAndFilter", "ShowRefs")

\* ref_journal_df.show(5, False)
ShowRefs ==
    /\ pc = "ShowRefs"
    /\ IF "ref_journal_df" \in bound
       THEN /\ pc' = "CountRefs"
            /\ out' = show(ref_journal_df.rows, Top5)
            /\ UNCHANGED <<run, errors, stores, disk, views, bound, frames>>
       ELSE Fail("ShowRefs", "CountRefs")

\* groupBy(['ref_journal', 'ref_journal_lc']).count(), and the top 5 by count
CountRefs ==
    /\ pc = "CountRefs"
    /\ IF /\ "ref_journal_df" \in bound
          /\ {"ref_journal", "ref_journal_lc"} \subseteq ref_journal_df.columns
       THEN /\ pc' = "JoinRefSerial"
            /\ ref_journal_df' =
                  [columns |-> {"ref_journal", "ref_journal_lc", "count"},
                   rows |-> RefTally(ref_journal_df.rows)]
            /\ \E sorted \in SortDesc(Project(ref_journal_df'.rows,
                                              {"ref_journal", "count"}), "count") :
                  out' = show(sorted, Top5)
            /\ UNCHANGED <<run, errors, stores, disk, views, bound, serial_df,
                           ss_df, ref_journals, cited_not_subscribed, journal_df,
                           published_not_subscribed>>
       ELSE Fail("CountRefs", "JoinRefSerial")

\* ref_journal_df.join(serial_df, ..., 'inner')
JoinRefSerial ==
    /\ pc = "JoinRefSerial"
    /\ IF /\ {"ref_journal_df", "serial_df"} \subseteq bound
          /\ "ref_journal_lc" \in ref_journal_df.columns
          /\ "serial_lc" \in serial_df.columns
       THEN /\ pc' = "SelectRefColumns"
            /\ ref_journal_df' =
                  [columns |-> ref_journal_df.columns \cup serial_df.columns,
                   rows |-> Join(ref_journal_df.rows, serial_df.rows,
                                 [i \in DOMAIN ref_journal_df.rows |-> [j \in DOMAIN serial_df.rows |->
                                     RefSerialOn(ref_journal_df.rows[i], serial_df.rows[j])]],
                                 "inner", NullSerial)]
            /\ UNCHANGED <<run, errors, out, stores, disk, views, bound, serial_df,
                           ss_df, ref_journals, cited_not_subscribed, journal_df,
                           published_not_subscribed>>
       ELSE Fail("JoinRefSerial", "SelectRefColumns")

RefColumns == {"serial_id", "ref_journal", "ref_journal_lc", "serial_issn",
               "serial_eissn", "open_access", "count"}

\* ref_journal_df = ref_jourfffnal_df.select(..., col('count').alias('cite_count'))
SelectRefColumns ==
    /\ pc = "SelectRefColumns"
    /\ IF "ref_jourfffnal_df" \in bound
       THEN /\ pc' = "LoadSubscriptions"
            /\ ref_journal_df' =
                  [columns |-> (RefColumns \ {"count"}) \cup {"cite_count"},
                   rows |-> [i \in DOMAIN ref_journal_df.rows |->
                               Project(ref_journal_df.rows, RefColumns \ {"count"})[i]
                               @@ [cite_count |-> ref_journal_df.rows[i].count]]]
            /\ out' = show(Project(ref_journal_df'.rows,
                                   ref_journal_df'.columns \ {"ref_journal_lc"}), Top5)
            /\ UNCHANGED <<run, errors, stores, disk, views, bound, serial_df,
                           ss_df, ref_journals, cited_not_subscribed, journal_df,
                           published_not_subscribed>>
       ELSE Fail("SelectRefColumns", "LoadSubscriptions")

\* read the export, normalise Title, show 5, drop duplicates
LoadSubscriptions ==
    /\ pc = "LoadSubscriptions"
    /\ IF "spark" \in bound
       THEN /\ pc' = "JoinRefSubscriptions"
            /\ ss_df' = [columns |-> SubscriptionColumns,
                         rows |-> Distinct(SubscriptionTitles(csv))]
            /\ out' = show(SubscriptionTitles(csv), Top5)
            /\ bound' = bound \cup {"ss_df", "exprs"}
            /\ UNCHANGED <<run, errors, stores, disk, views, serial_df,
                           ref_journal_df, ref_journals, cited_not_subscribed,
                           journal_df, published_not_subscribed>>
       ELSE Fail("LoadSubscriptions", "JoinRefSubscriptions")

\* ref_journals = ref_journal_df.join(ss_df, ..., "left_outer")
JoinRefSubscriptions ==
    /\ pc = "JoinRefSubscriptions"
    /\ IF /\ {"ref_journal_df", "ss_df"} \subseteq bound
          /\ {"ref_journal_lc", "serial_issn", "serial_eissn"}
                \subseteq ref_journal_df.columns
          /\ SubscriptionColumns \subseteq ss_df.columns
       THEN /\ pc' = "SaveRefJournals"
            /\ ref_journals' =
                  [columns |-> ref_journal_df.columns \cup ss_df.columns,
                   rows |-> Join(ref_journal_df.rows, ss_df.rows,
                                 [i \in DOMAIN ref_journal_df.rows |-> [j \in DOMAIN ss_df.rows |->
                                     RefSubscriptionOn(ref_journal_df.rows[i], ss_df.rows[j])]],
                                 "left_outer", NullSubscription)]
            /\ out' = show(Project(ref_journals'.rows,
                                   {"ref_journal", "serial_issn", "serial_eissn",
                                    "Title", "ISSN", "eISSN"}), Top5)
            /\ bound' = bound \cup {"ref_journals"}
            /\ UNCHANGED <<run, errors, stores, disk, views, serial_df,
                           ref_journal_df, ss_df, cited_not_subscribed, journal_df,
                           published_not_subscribed>>
       ELSE Fail("JoinRefSubscriptions", "SaveRefJournals")

\* DataFrameWriter.save(path) in the default mode: raises when the path exists
Saved(d, path, df) ==
    IF d[path].exists THEN d ELSE [d EXCEPT ![path] = [exists |-> TRUE, table |-> df]]

\* ref_journal_df.write.format('parquet').save('../data/ref_journals.parquet')
SaveRefJournals ==
    /\ pc = "SaveRefJournals"
    /\ IF "ref_journal_df" \in bound /\ ~disk[RefPath].exists
       THEN /\ pc' = "CitedNotSubscribed"
            /\ disk' = Saved(disk, RefPath, ref_journal_df)
            /\ UNCHANGED <<run, errors, out, stores, views, bound, frames>>
       ELSE Fail("SaveRefJournals", "CitedNotSubscribed")

\* df.filter(df.Title.isNull())
TitleIsNull(rows) == Keep(rows, [i \in DOMAIN rows |-> rows[i].Title = Null])

CitedColumns == {"serial_id", "ref_journal", "serial_issn", "serial_eissn",
                 "open_access", "cite_count"}

\* cited_not_subscribed = ref_journal_df.filter(ref_journal_df.Title.isNull()),
\* then its report by cite_count
CitedNotSubscribed ==
    /\ pc = "CitedNotSubscribed"
    /\ IF "ref_journal_df" \in bound /\ "Title" \in ref_journal_df.columns
       THEN /\ pc' = "SelectPubs"
            /\ cited_not_subscribed' =
                  [columns |-> ref_journal_df.columns,
                   rows |-> TitleIsNull(ref_journal_df.rows)]
            /\ bound' = bound \cup {"cited_not_subscribed"}
            /\ IF CitedColumns \subseteq ref_journal_df.columns
               THEN /\ \E sorted \in SortDesc(Project(cited_not_subscribed'.rows,
                                                      CitedColumns), "cite_count") :
                          out' = show(sorted, Top25)
                    /\ errors' = errors
               ELSE /\ out' = out
                    /\ errors' = errors \cup {"CitedNotSubscribed"}
            /\ UNCHANGED <<run, stores, disk, views, serial_df, ref_journal_df,
                           ss_df, ref_journals, journal_df, published_not_subscribed>>
       ELSE Fail("CitedNotSubscribed", "SelectPubs")

\* journal_df = spark.sql(...), and the journal_lc column
SelectPubs ==
    /\ pc = "SelectPubs"
    /\ IF "spark" \in bound /\ "document" \in views
       THEN /\ pc' = "ShowPubs"
            /\ journal_df' = PubQuery(document)
            /\ bound' = bound \cup {"journal_df"}
            /\ UNCHANGED <<run, errors, out, stores, disk, views, serial_df,
                           ref_journal_df, ss_df, ref_journals, cited_not_subscribed,
                           published_not_subscribed>>
       ELSE Fail("SelectPubs", "ShowPubs")

\* journal_df.show(5, False)
ShowPubs ==
    /\ pc = "ShowPubs"
    /\ IF "journal_df" \in bound
       THEN /\ pc' = "CountPubs"
            /\ out' = show(journal_df.rows, Top5)
            /\ UNCHANGED <<run, errors, stores, disk, views, bound, frames>>
       ELSE Fail("ShowPubs", "CountPubs")

\* groupBy(['journal', 'journal_lc']).count().sort('count', ascending=0)
CountPubs ==
    /\ pc = "CountPubs"
    /\ IF /\ "journal_df" \in bound
          /\ {"journal", "journal_lc"} \subseteq journal_df.columns
       THEN /\ pc' = "JoinPubSerial"
            /\ \E sorted \in SortDesc(PubTally(journal_df.rows), "count") :
                  /\ journal_df' = [columns |-> {"journal", "journal_lc", "count"},
                                    rows |-> sorted]
                  /\ out' = show(Project(sorted, {"journal", "count"}), Top5)
            /\ UNCHANGED <<run, errors, stores, disk, views, bound, serial_df,
                           ref_journal_df, ss_df, ref_journals, cited_not_subscribed,
                           published_not_subscribed>>
       ELSE Fail("CountPubs", "JoinPubSerial")

\* journal_df.join(serial_df, ..., 'inner')
JoinPubSerial ==
    /\ pc = "JoinPubSerial"
    /\ IF /\ {"journal_df", "serial_df"} \subseteq bound
          /\ "journal_lc" \in journal_df.columns
          /\ "serial_lc" \in serial_df.columns
       THEN /\ pc' = "SelectPubColumns"
            /\ journal_df' =
                  [columns |-> journal_df.columns \cup serial_df.columns,
                   rows |-> Join(journal_df.rows, serial_df.rows,
                                 [i \in DOMAIN journal_df.rows |-> [j \in DOMAIN serial_df.rows |->
                                     PubSerialOn(journal_df.rows[i], serial_df.rows[j])]],
                                 "inner", NullSerial)]
            /\ UNCHANGED <<run, errors, out, stores, disk, views, bound, serial_df,
                           ref_journal_df, ss_df, ref_journals, cited_not_subscribed,
                           published_not_subscribed>>
       ELSE Fail("JoinPubSerial", "SelectPubColumns")

PubColumns == {"serial_id", "journal", "journal_lc", "serial_issn", "serial_eissn",
               "open_access", "count"}

\* journal_df = journal_df.select(...), and a sample
SelectPubColumns ==
    /\ pc = "SelectPubColumns"
    /\ IF "journal_df" \in bound /\ PubColumns \subseteq journal_df.columns
       THEN /\ pc' = "JoinPubSubscriptions"
            /\ journal_df' = [columns |-> PubColumns,
                              rows |-> Project(journal_df.rows, PubColumns)]
            /\ out' = show(Project(journal_df.rows, PubColumns \ {"journal_lc"}), Top5)
            /\ UNCHANGED <<run, errors, stores, disk, views, bound, serial_df,
                           ref_journal_df, ss_df, ref_journals, cited_not_subscribed,
                           published_not_subscribed>>
       ELSE Fail("SelectPubColumns", "JoinPubSubscriptions")

\* journal_df = journal_df.join(ss_df, ..., "left_outer")
JoinPubSubscriptions ==
    /\ pc = "JoinPubSubscriptions"
    /\ IF /\ {"journal_df", "ss_df"} \subseteq bound
          /\ {"journal_lc", "serial_issn", "serial_eissn"} \subseteq journal_df.columns
          /\ SubscriptionColumns \subseteq ss_df.columns
       THEN /\ pc' = "ShowPubJournals"
            /\ journal_df' =
                  [columns |-> journal_df.columns \cup ss_df.columns,
                   rows |-> Join(journal_df.rows, ss_df.rows,
                                 [i \in DOMAIN journal_df.rows |-> [j \in DOMAIN ss_df.rows |->
                                     PubSubscriptionOn(journal_df.rows[i], ss_df.rows[j])]],
                                 "left_outer", NullSubscription)]
            /\ UNCHANGED <<run, errors, out, stores, disk, views, bound, serial_df,
                           ref_journal_df, ss_df, ref_journals, cited_not_subscribed,
                           published_not_subscribed>>
       ELSE Fail("JoinPubSubscriptions", "ShowPubJournals")

\* journal_df.show(5, False)
ShowPubJournals ==
    /\ pc = "ShowPubJournals"
    /\ IF "journal_df" \in bound
       THEN /\ pc' = "SavePubJournals"
            /\ out' = show(journal_df.rows, Top5)
            /\ UNCHANGED <<run, errors, stores, disk, views, bound, frames>>
       ELSE Fail("ShowPubJournals", "SavePubJournals")

\* journal_df.write.format('parquet').save('../data/pub_journals.parquet')
SavePubJournals ==
    /\ pc = "SavePubJournals"
    /\ IF "journal_df" \in bound /\ ~disk[PubPath].exists
       THEN /\ pc' = "PublishedNotSubscribed"
            /\ disk' = Saved(disk, PubPath, journal_df)
            /\ UNCHANGED <<run, errors, out, stores, views, bound, frames>>
       ELSE Fail("SavePubJournals", "PublishedNotSubscribed")

PublishedColumns == {"serial_id", "journal", "serial_issn", "serial_eissn",
                     "open_access", "count"}

\* published_not_subscribed = journal_df.filter(journal_df.Title.isNull()),
\* then its report by count
PublishedNotSubscribed ==
    /\ pc = "PublishedNotSubscribed"
    /\ IF "journal_df" \in bound /\ "Title" \in journal_df.columns
       THEN /\ pc' = "done"
            /\ published_not_subscribed' =
                  [columns |-> journal_df.columns,
                   rows |-> TitleIsNull(journal_df.rows)]
            /\ bound' = bound \cup {"published_not_subscribed"}
            /\ IF PublishedColumns \subseteq journal_df.columns
               THEN /\ \E sorted \in SortDesc(Project(published_not_subscribed'.rows,
                                                      PublishedColumns), "count") :
                          out' = show(sorted, Top25)
                    /\ errors' = errors
               ELSE /\ out' = out
                    /\ errors' = errors \cup {"PublishedNotSubscribed"}
            /\ UNCHANGED <<run, stores, disk, views, serial_df, ref_journal_df,
                           ss_df, ref_journals, cited_not_subscribed, journal_df>>
       ELSE Fail("PublishedNotSubscribed", "done")

\* the notebook is run again from the top in a fresh session; the stores and
\* the data directory are as the previous run left them
Rerun ==
    /\ pc = "done"
    /\ run < MaxRuns
    /\ pc' = "Imports"
    /\ run' = run + 1
    /\ errors' = {}
    /\ out' = <<>>
    /\ views' = {}
    /\ bound' = {}
    /\ serial_df' = NoFrame
    /\ ref_journal_df' = NoFrame
    /\ ss_df' = NoFrame
    /\ ref_journals' = NoFrame
    /\ cited_not_subscribed' = NoFrame
    /\ journal_df' = NoFrame
    /\ published_not_subscribed' = NoFrame
    /\ UNCHANGED <<stores, disk>>

Next ==
    \/ Imports
    \/ StartSession
    \/ LoadDocument
    \/ LoadSerial
    \/ ShowSerial
    \/ SelectRefs
    \/ DefineZip
    \/ ZipAndFilter
    \/ ShowRefs
    \/ CountRefs
    \/ JoinRefSerial
    \/ SelectRefColumns
    \/ LoadSubscriptions
    \/ JoinRefSubscriptions
    \/ SaveRefJournals
    \/ CitedNotSubscribed
    \/ SelectPubs
    \/ ShowPubs
    \/ CountPubs
    \/ JoinPubSerial
    \/ SelectPubColumns
    \/ JoinPubSubscriptions
    \/ ShowPubJournals
    \/ SavePubJournals
    \/ PublishedNotSubscribed
    \/ Rerun

-----------------------------------------------------------------------------
(* Inputs *)

Seqs(S, n) == UNION {[1..k -> S] : k \in 0..n}

T_Na == <<"N", "a">>
T_NA == <<"N", "A">>
T_na == <<"n", "a">>
T_X == <<"X">>
T_AmpB == <<"A", " ", "&", " ", "B">>
T_aandb == <<"a", " ", "a", "n", "d", " ", "b">>
Issn1 == <<"1">>
Issn2 == <<"2">>

Doc(type, name, sources, titles) ==
    [aggregationType |-> type, source_id |-> <<"7">>, publicationName |-> name,
     sourcetitle |-> sources, title |-> titles]

SerialRow(id, type, t, issn, eissn, oa) ==
    [source_id |-> id, aggregationType |-> type, title |-> t, issn |-> issn,
     eIssn |-> eissn, openaccess |-> oa]

SubRow(t, issn, eissn) == [Title |-> t, ISSN |-> issn, eISSN |-> eissn]

\* serial ids are unique: the i-th registry entry has id i
SerialIds == <<<<"1">>, <<"2">>, <<"3">>, <<"4">>>>
WithIds(entries) ==
    [i \in DOMAIN entries |->
        SerialRow(SerialIds[i], entries[i].aggregationType, entries[i].title,
                  entries[i].issn, entries[i].eIssn, entries[i].openaccess)]

FreshSession ==
    /\ pc = "Imports"
    /\ run = 1
    /\ errors = {}
    /\ out = <<>>
    /\ disk = [p \in Paths |-> [exists |-> FALSE, table |-> NoFrame]]
    /\ views = {}
    /\ bound = {}
    /\ serial_df = NoFrame
    /\ ref_journal_df = NoFrame
    /\ ss_df = NoFrame
    /\ ref_journals = NoFrame
    /\ cited_not_subscribed = NoFrame
    /\ journal_df = NoFrame
    /\ published_not_subscribed = NoFrame

\* fixed small stores, used where a specification varies another input
SomeDocs ==
    <<Doc("Journal", T_Na, PyList(<<T_Na, T_NA, T_AmpB>>), PyList(<<T_X, T_X, T_X>>)),
      Doc("Journal", T_AmpB, PyList(<<T_Na, T_X>>), PyList(<<T_X, T_X>>)),
      Doc("Book", T_X, PyNone, PyNone)>>
SomeSerials ==
    WithIds(<<SerialRow(Null, "journal", T_Na, Issn1, Null, <<"0">>),
              SerialRow(Null, "journal", T_AmpB, Null, Issn2, Null),
              SerialRow(Null, "book", T_X, Null, Null, Null)>>)
SomeSubs ==
    <<SubRow(T_Na, Null, Null), SubRow(T_AmpB, Null, Null), SubRow(T_Na, Null, Null)>>

\* Spec: a few documents of several shapes, two registries, three exports
RefShapes ==
    {<<PyList(<<T_AmpB, T_Na>>), PyList(<<T_X, T_Na>>)>>,
     <<PyList(<<T_NA, T_Na, T_Na>>), PyList(<<T_X, Null>>)>>,
     <<PyNone, PyNone>>}
DocPool ==
    {Doc(type, name, refs[1], refs[2]) :
        type \in {"Journal", "Book"}, name \in {T_Na, T_AmpB}, refs \in RefShapes}
SerialTables ==
    {SomeSerials,
     WithIds(<<SerialRow(Null, "journal", T_AmpB, Issn1, Null, Null),
               SerialRow(Null, "journal", T_NA, Null, Null, <<"1">>)>>)}
SubTables ==
    {SomeSubs,
     <<SubRow(T_aandb, Issn2, Null)>>,
     <<>>}

Init ==
    /\ FreshSession
    /\ document \in Seqs(DocPool, MaxDocs)
    /\ serial \in SerialTables
    /\ csv \in SubTables

Spec == Init /\ [][Next]_vars

\* SpecRef: one journal article whose reference list is any list of at most
\* MaxRefs (source title, work title) pairs, next to a second fixed article
SourceTitles == {Null, NullStr, T_Na, T_NA}
WorkTitles == {Null, NullStr, T_Na, T_X}
RefLists == Seqs(SourceTitles \X WorkTitles, MaxRefs)
Firsts(ps) == [i \in DOMAIN ps |-> ps[i][1]]
Seconds(ps) == [i \in DOMAIN ps |-> ps[i][2]]

InitRef ==
    /\ FreshSession
    /\ \E ps \in RefLists :
          document = <<Doc("Journal", T_Na, PyList(Firsts(ps)), PyList(Seconds(ps))),
                       Doc("Journal", T_AmpB, PyList(<<T_Na, T_X>>),
                           PyList(<<T_X, T_X>>))>>
    /\ serial = SomeSerials
    /\ csv = SomeSubs

SpecRef == InitRef /\ [][Next]_vars

\* SpecJoin: registries of at most MaxSerials entries and exports of at most
\* MaxSubs rows, against fixed documents
SerialPool ==
    {SerialRow(Null, "journal", T_Na, Issn1, Null, <<"0">>),
     SerialRow(Null, "journal", T_NA, Null, Issn2, <<"1">>),
     SerialRow(Null, "journal", T_AmpB, Issn2, Null, Null)}
SubPool ==
    {SubRow(T_Na, Null, Null),
     SubRow(T_X, Null, Issn1),
     SubRow(T_AmpB, Issn2, Null),
     SubRow(Null, Null, Null)}

InitJoin ==
    /\ FreshSession
    /\ document = SomeDocs
    /\ \E entries \in Seqs(SerialPool, MaxSerials) : serial = WithIds(entries)
    /\ csv \in Seqs(SubPool, MaxSubs)

SpecJoin == InitJoin /\ [][Next]_vars

\* SpecPair: one registry entry against one export row, every combination of
\* absent (NULL), 'null' and present identifiers
Identifiers == {Null, NullStr, Issn1, Issn2}

InitPair ==
    /\ FreshSession
    /\ document = SomeDocs
    /\ \E t \in {T_Na, T_AmpB}, i, e \in Identifiers :
          serial = WithIds(<<SerialRow(Null, "journal", t, i, e, Null)>>)
    /\ \E t \in {T_Na, T_X, Null}, i, e \in Identifiers : csv = <<SubRow(t, i, e)>>

SpecPair == InitPair /\ [][Next]_vars

\* SpecNorm: an export of one row whose title is any string of at most MaxLen
\* letters, spaces and ampersands
TitleAlphabet == {"a", "A", " ", "&"}

InitNorm ==
    /\ FreshSession
    /\ document = SomeDocs
    /\ serial = SomeSerials
    /\ \E t \in Seqs(TitleAlphabet, MaxLen) : csv = <<SubRow(t, Issn1, Null)>>

SpecNorm == InitNorm /\ [][Next]_vars

\* SpecZip: one journal article whose two reference columns are each absent
\* (None) or a list of at most MaxRefs titles, of any two lengths
ZipArgs == {PyNone} \cup {PyList(l) : l \in Seqs({T_Na, T_X}, MaxRefs)}

InitZip ==
    /\ FreshSession
    /\ \E x, y \in ZipArgs : document = <<Doc("Journal", T_Na, x, y)>>
    /\ serial = SomeSerials
    /\ csv = SomeSubs

SpecZip == InitZip /\ [][Next]_vars

-----------------------------------------------------------------------------
(* Vocabulary of the properties *)

\* an identifier is present when it is neither NULL nor the text 'null'
Present(v) == v # Null /\ v # NullStr

\* the serial's ISSN or eISSN is present and equals one of the subscription's
IdentifierMatch(r, s) ==
    \/ Present(r.serial_issn) /\ r.serial_issn \in {s.ISSN, s.eISSN}
    \/ Present(r.serial_eissn) /\ r.serial_eissn \in {s.ISSN, s.eISSN}

\* title equality, or ISSN match, or eISSN match
Matches(lc, r, s) == (lc # Null /\ lc = s.Title) \/ IdentifierMatch(r, s)

LeftPart(row, like) == [c \in DOMAIN like |-> row[c]]
SubscriptionPart(row) == [Title |-> row.Title, ISSN |-> row.ISSN, eISSN |-> row.eISSN]

\* the full normalisation of a title: lower-case, then ' & ' -> ' and '
Normalize(t) == regexp_replace(lower(t))

\* the (source title, work title) pairs of the journal articles' references
PairsOf(d) ==
    IF isinstance_list(d.sourcetitle) /\ isinstance_list(d.title)
    THEN [i \in 1..Min(Len(d.sourcetitle.items), Len(d.title.items)) |->
              <<d.sourcetitle.items[i], d.title.items[i]>>]
    ELSE <<>>
ReferencePairs ==
    LET ds == JournalDocs(document) IN Flatten([i \in DOMAIN ds |-> PairsOf(ds[i])])

Tallied == pc = "JoinRefSerial" /\ "CountRefs" \notin errors
TallyCount(v) ==
    LET hits == {k \in DOMAIN ref_journal_df.rows : ref_journal_df.rows[k].ref_journal = v}
    IN  IF hits = {} THEN 0 ELSE ref_journal_df.rows[CHOOSE k \in hits : TRUE].count

-----------------------------------------------------------------------------
(* C1 *)

LeftOuterOk(L, R, lc, Res) ==
    \A i \in DOMAIN L :
        LET copies == {k \in DOMAIN Res : LeftPart(Res[k], L[i]) = L[i]}
        IN  /\ copies # {}
            /\ (\E k \in copies : SubscriptionPart(Res[k]) = NullSubscription)
                  <=> ~(\E j \in DOMAIN R : Matches(L[i][lc], L[i], R[j]))

\* C1: the subscription join is left-outer.  Every stage-1 row appears at
\* least once in the stage-2 result, and it appears with the subscription
\* side NULL exactly when no subscription entry matches it by title, ISSN or
\* eISSN.
C1_LeftOuter ==
    [][/\ pc = "JoinRefSubscriptions" =>
            LeftOuterOk(ref_journal_df.rows, ss_df.rows, "ref_journal_lc",
                        ref_journals'.rows)
       /\ pc = "JoinPubSubscriptions" =>
            LeftOuterOk(journal_df.rows, ss_df.rows, "journal_lc", journal_df'.rows)
      ]_vars

C1_Witness ==
    /\ pc = "SaveRefJournals"
    /\ \E k1, k2 \in DOMAIN ref_journals.rows :
          /\ SubscriptionPart(ref_journals.rows[k1]) = NullSubscription
          /\ ref_journals.rows[k2].Title # Null
    /\ Len(ss_df.rows) > 0

-----------------------------------------------------------------------------
(* C2 *)

IdentifierPairsJoined(L, R, Res) ==
    \A i \in DOMAIN L, j \in DOMAIN R :
        IdentifierMatch(L[i], R[j]) => \E k \in DOMAIN Res : Res[k] = L[i] @@ R[j]

\* C2: identifier matching is symmetric across ISSN and eISSN.  A stage-1 row
\* whose present ISSN or present eISSN equals the subscription's ISSN or eISSN
\* is joined to that subscription entry, whatever the titles.
C2_IdentifierSymmetric ==
    [][/\ pc = "JoinRefSubscriptions" =>
            IdentifierPairsJoined(ref_journal_df.rows, ss_df.rows, ref_journals'.rows)
       /\ pc = "JoinPubSubscriptions" =>
            IdentifierPairsJoined(journal_df.rows, ss_df.rows, journal_df'.rows)
      ]_vars

C2_Witness ==
    /\ pc = "SaveRefJournals"
    /\ \E k \in DOMAIN ref_journals.rows :
          LET r == ref_journals.rows[k]
          IN  /\ r.Title # Null
              /\ r.Title # r.ref_journal_lc
              /\ Present(r.serial_issn)
              /\ r.serial_issn = r.eISSN
              /\ r.serial_issn # r.ISSN
              /\ r.serial_eissn \notin {r.ISSN, r.eISSN}

-----------------------------------------------------------------------------
(* C3 *)

OnlyRealMatches(lc, Res) ==
    \A k \in DOMAIN Res :
        (SubscriptionPart(Res[k]) # NullSubscription /\ Res[k][lc] # Res[k].Title)
            => IdentifierMatch(Res[k], SubscriptionPart(Res[k]))

\* C3: identifier comparison is null-safe.  When the titles differ, a stage-1
\* row is joined to a subscription entry only if one of the serial's
\* identifiers is present and equals one of the entry's identifiers: an
\* identifier missing on either side, or present and different, never matches.
C3_NullSafe ==
    [][/\ pc = "JoinRefSubscriptions" => OnlyRealMatches("ref_journal_lc", ref_journals'.rows)
       /\ pc = "JoinPubSubscriptions" => OnlyRealMatches("journal_lc", journal_df'.rows)
      ]_vars

\* both sides lack the ISSN, the titles differ, and the row is left unmatched
C3_Witness ==
    /\ pc = "SaveRefJournals"
    /\ Len(ss_df.rows) = 1
    /\ ss_df.rows[1].ISSN = Null
    /\ ss_df.rows[1].Title # Null
    /\ \E k \in DOMAIN ref_journals.rows :
          /\ ref_journals.rows[k].serial_issn = Null
          /\ ref_journals.rows[k].ref_journal_lc # ss_df.rows[1].Title
          /\ SubscriptionPart(ref_journals.rows[k]) = NullSubscription

-----------------------------------------------------------------------------
(* C4 *)

InnerFanOut(L, S, lc, Res) ==
    /\ \A i \in DOMAIN L :
          LET same == {j \in DOMAIN S : lower(S[j].serial) = L[i][lc]}
          IN  /\ Cardinality({k \in DOMAIN Res : LeftPart(Res[k], L[i]) = L[i]})
                    = Cardinality(same)
              /\ \A j \in same :
                    Cardinality({k \in DOMAIN Res : Res[k] = L[i] @@ S[j]}) = 1
    /\ \A k \in DOMAIN Res : \E i \in DOMAIN L : LeftPart(Res[k], L[i]) = L[i]

\* C4: the serial join is inner, with fan-out.  A tally row gives exactly one
\* stage-1 row per serial whose lower-cased title equals the tally row's
\* lower-cased title, and none when no serial has that title.
C4_InnerFanOut ==
    [][/\ pc = "JoinRefSerial" =>
            InnerFanOut(ref_journal_df.rows, serial_df.rows, "ref_journal_lc",
                        ref_journal_df'.rows)
       /\ pc = "JoinPubSerial" =>
            InnerFanOut(journal_df.rows, serial_df.rows, "journal_lc", journal_df'.rows)
      ]_vars

\* one tally row joined to two serials, another tally row dropped
C4_Witness ==
    /\ pc = "SelectRefColumns"
    /\ \E k1, k2 \in DOMAIN ref_journal_df.rows :
          /\ ref_journal_df.rows[k1].serial_id # ref_journal_df.rows[k2].serial_id
          /\ ref_journal_df.rows[k1].ref_journal = ref_journal_df.rows[k2].ref_journal
    /\ ~(\E k \in DOMAIN ref_journal_df.rows : ref_journal_df.rows[k].ref_journal = T_AmpB)

-----------------------------------------------------------------------------
(* C5 *)

PairsWhere(keep) == Cardinality({n \in DOMAIN ReferencePairs : keep[n]})

\* C5: a reference pair whose lower-cased source title equals its lower-cased
\* work title contributes nothing to the reference tally.  Every tally row's
\* count is at most the number of pairs with that source title whose
\* lower-cased titles differ, so such a pair adds neither a row nor a count.
C5_EqualTitlesDropped ==
    Tallied =>
        \A k \in DOMAIN ref_journal_df.rows :
            ref_journal_df.rows[k].count <=
                PairsWhere([n \in DOMAIN ReferencePairs |->
                    /\ ReferencePairs[n][1] = ref_journal_df.rows[k].ref_journal
                    /\ lower(ReferencePairs[n][1]) # lower(ReferencePairs[n][2])])

\* "NA" cited with work title "Na" is dropped while "Na" is tallied
C5_Witness ==
    /\ Tallied
    /\ \E n \in DOMAIN ReferencePairs : ReferencePairs[n] = <<T_NA, T_Na>>
    /\ TallyCount(T_NA) = 0
    /\ TallyCount(T_Na) >= 1

-----------------------------------------------------------------------------
(* C6 *)

Missing(t) == t = Null \/ lower(t) = NullStr

\* the three stated rules
DroppedAsStated(p) ==
    \/ Missing(p[1]) /\ Missing(p[2])
    \/ ~Missing(p[1]) /\ ~Missing(p[2]) /\ lower(p[1]) = lower(p[2])
    \/ Missing(p[1])

\* what the extractor keeps
Retained(p) ==
    /\ ~Missing(p[1])
    /\ p[2] # Null
    /\ lower(p[1]) # lower(p[2])

CitedTitles ==
    {ReferencePairs[n][1] : n \in DOMAIN ReferencePairs}
        \cup {ref_journal_df.rows[k].ref_journal : k \in DOMAIN ref_journal_df.rows}

\* C6 as stated: a pair is dropped only under the three stated rules, every
\* other pair is retained and counted (so a pair with a source title and no
\* work title is counted).
C6_DropsOnlyAsStated ==
    Tallied =>
        \A v \in CitedTitles :
            TallyCount(v) =
                PairsWhere([n \in DOMAIN ReferencePairs |->
                    ReferencePairs[n][1] = v /\ ~DroppedAsStated(ReferencePairs[n])])

\* C6, amended: a pair is dropped when its source title is missing (NULL or
\* the text 'null'), when its work title is NULL, or when both lower-cased
\* titles are equal; every other pair is retained and counted.  A pair with a
\* source title and a NULL work title is dropped.
C6_DropRules ==
    Tallied =>
        \A v \in CitedTitles :
            TallyCount(v) =
                PairsWhere([n \in DOMAIN ReferencePairs |->
                    ReferencePairs[n][1] = v /\ Retained(ReferencePairs[n])])

\* "NA" cited once with a NULL work title (dropped) beside "Na" cited with the
\* work title 'null' (counted)
C6_Witness ==
    /\ Tallied
    /\ \E n \in DOMAIN ReferencePairs : ReferencePairs[n] = <<T_NA, Null>>
    /\ TallyCount(T_NA) = 0
    /\ \E n \in DOMAIN ReferencePairs : ReferencePairs[n] = <<T_Na, NullStr>>
    /\ TallyCount(T_Na) = 2

-----------------------------------------------------------------------------
(* C7 *)

\* C7: the tally has exactly one row per distinct lower-cased source title,
\* whose count is the number of retained pairs with that lower-cased title, so
\* titles that differ only in letter case share one row.
C7_OneRowPerNormalizedTitle ==
    [][pc = "CountRefs" =>
         \A i \in DOMAIN ref_journal_df.rows :
             LET lc == ref_journal_df.rows[i].ref_journal_lc
                 hits == {k \in DOMAIN ref_journal_df'.rows :
                             ref_journal_df'.rows[k].ref_journal_lc = lc}
             IN  /\ Cardinality(hits) = 1
                 /\ \A k \in hits :
                       ref_journal_df'.rows[k].count =
                           Cardinality({j \in DOMAIN ref_journal_df.rows :
                                           ref_journal_df.rows[j].ref_journal_lc = lc})
      ]_vars

-----------------------------------------------------------------------------
(* C8 *)

\* C8: title normalisation is idempotent.  Normalising an already normalised
\* subscription title changes nothing.
C8_NormalizeIdempotent ==
    "ss_df" \in bound =>
        \A k \in DOMAIN ss_df.rows : Normalize(ss_df.rows[k].Title) = ss_df.rows[k].Title

-----------------------------------------------------------------------------
(* C9 *)

SameNormalizationJoined(L, raw, Res) ==
    \A i \in DOMAIN L, j \in DOMAIN csv :
        (csv[j].Title # Null /\ Normalize(L[i][raw]) = Normalize(csv[j].Title))
            => \E k \in DOMAIN Res :
                  /\ LeftPart(Res[k], L[i]) = L[i]
                  /\ Res[k].Title = Normalize(csv[j].Title)

\* C9: every title join compares titles normalised the same way on both
\* sides.  A cited or published title and a subscription title that are equal
\* after lower-casing and replacing ' & ' by ' and ' are joined by title.
C9_SameNormalization ==
    [][/\ pc = "JoinRefSubscriptions" =>
            SameNormalizationJoined(ref_journal_df.rows, "ref_journal", ref_journals'.rows)
       /\ pc = "JoinPubSubscriptions" =>
            SameNormalizationJoined(journal_df.rows, "journal", journal_df'.rows)
      ]_vars

-----------------------------------------------------------------------------
(* C10 *)

\* C10: once the cells have run in order, each persisted table is a stage-2
\* result: it exists and carries the subscription columns Title, ISSN, eISSN.
C10_PersistedStage2 ==
    pc = "done" =>
        \A p \in Paths :
            /\ disk[p].exists
            /\ SubscriptionColumns \subseteq disk[p].table.columns

-----------------------------------------------------------------------------
(* C11 *)

\* the unmatched report of a stage-2 table: its rows whose subscription side
\* is NULL, and their projection shown by count, largest first
UnmatchedReport(stage2, unmatched, shown, cols, count) ==
    LET expected == Keep(stage2, [k \in DOMAIN stage2 |->
                                     SubscriptionPart(stage2[k]) = NullSubscription])
    IN  /\ unmatched = expected
        /\ \E sorted \in SortDesc(Project(expected, cols), count) :
               shown = show(sorted, Top25)

\* C11: the unmatched report of each variant is computed from that variant's
\* stage-2 result.  The report cell of the citation variant leaves
\* cited_not_subscribed holding exactly the rows of ref_journals whose
\* subscription side is NULL, the report cell of the publication variant does
\* the same from journal_df, and each shows the projection to (serial_id,
\* title, issn, eissn, open_access, count) with counts non-increasing.
C11_UnmatchedFromStage2 ==
    [][/\ pc = "CitedNotSubscribed" =>
            UnmatchedReport(ref_journals.rows, cited_not_subscribed'.rows, out',
                            CitedColumns, "cite_count")
       /\ pc = "PublishedNotSubscribed" =>
            UnmatchedReport(journal_df.rows, published_not_subscribed'.rows, out',
                            PublishedColumns, "count")
      ]_vars

-----------------------------------------------------------------------------
(* C12 *)

\* a save cell met an existing table, finished without raising, and left the
\* path holding the table it wrote
Overwrote(cell, path, df) ==
    /\ cell \notin errors'
    /\ disk'[path] = [exists |-> TRUE, table |-> df]

\* C12: persisting a result to its output path when a table already exists
\* there succeeds and replaces the old table: the save cell does not raise,
\* and after it the path holds exactly the table the cell wrote.
C12_OverwriteOnSave ==
    [][/\ (pc = "SaveRefJournals" /\ disk[RefPath].exists) =>
            Overwrote("SaveRefJournals", RefPath, ref_journal_df)
       /\ (pc = "SavePubJournals" /\ disk[PubPath].exists) =>
            Overwrote("SavePubJournals", PubPath, journal_df)
      ]_vars

-----------------------------------------------------------------------------
(* C13 *)

\* two tables with the same rows, each as many times (row order apart)
SameRows(a, b) ==
    /\ Len(a) = Len(b)
    /\ \A k \in DOMAIN a : Occurrences(a, a[k]) = Occurrences(b, a[k])

\* C13: re-running the pipeline on the same stores is idempotent.  When a
\* later run has passed its last cell, its two save cells have finished
\* without raising, and the tables the earlier run left at the two output
\* paths have the rows of the tables this run derived and wrote.
C13_RerunIdempotent ==
    (pc = "done" /\ run > 1) =>
        /\ errors \cap {"SaveRefJournals", "SavePubJournals"} = {}
        /\ SameRows(disk[RefPath].table.rows, ref_journal_df.rows)
        /\ SameRows(disk[PubPath].table.rows, journal_df.rows)

-----------------------------------------------------------------------------
(* C14 *)

\* after holds every row of before once, and nothing else
DuplicatesDropped(before, after) ==
    /\ \A k \in DOMAIN before : Occurrences(after, before[k]) = 1
    /\ \A k \in DOMAIN after : Occurrences(before, after[k]) >= 1
    /\ Len(before) - Len(after) =
            Len(before) - Cardinality({before[k] : k \in DOMAIN before})

\* C14: dropping duplicate rows from the subscription table keeps its set of
\* (Title, ISSN, eISSN) tuples.  Every tuple of the table before the drop is
\* in ss_df exactly once, ss_df holds no other row, and the row count falls
\* by the number of surplus copies.
C14_DropDuplicates ==
    [][pc = "LoadSubscriptions" =>
          DuplicatesDropped(SubscriptionTitles(csv), ss_df'.rows)]_vars

\* an export of two equal rows leaves one subscription row
C14_Witness ==
    /\ pc = "JoinRefSubscriptions"
    /\ Len(csv) >= 2
    /\ csv[1] = csv[2]
    /\ Len(ss_df.rows) = Len(csv) - 1

-----------------------------------------------------------------------------
(* C15 *)

\* characters in code-point order, and the order of strings it gives
CodePoints == <<" ", "&", "0", "1", "2", "3", "4", "5", "6", "7", "8", "9">>
                  \o UpperCase \o LowerCase
CodePoint(c) == CHOOSE i \in DOMAIN CodePoints : CodePoints[i] = c

RECURSIVE TitleLeq(_, _)
TitleLeq(a, b) ==
    IF Len(a) = 0 THEN TRUE
    ELSE IF Len(b) = 0 THEN FALSE
    ELSE IF Head(a) = Head(b) THEN TitleLeq(Tail(a), Tail(b))
    ELSE CodePoint(Head(a)) < CodePoint(Head(b))

\* counts non-increasing, rows of equal count by lower-cased title ascending
TopOrder(shown, title) ==
    \A i \in 1..(Len(shown) - 1) :
        \/ shown[i].count > shown[i + 1].count
        \/ /\ shown[i].count = shown[i + 1].count
           /\ TitleLeq(lower(shown[i][title]), lower(shown[i + 1][title]))

\* C15: the top-N report lists the tally rows by count descending, rows of
\* equal count by normalized title ascending, so one tally gives one order.
C15_TopOrderTieBreak ==
    [][/\ pc = "CountRefs" => TopOrder(out', "ref_journal")
       /\ pc = "CountPubs" => TopOrder(out', "journal")
      ]_vars

-----------------------------------------------------------------------------
(* C16 *)

\* the (ref_journal, ref_journal_lc) rows of the reference pairs picked by keep
KeptPairs(keep) ==
    LET ps == Keep(ReferencePairs, keep)
    IN  [i \in DOMAIN ps |-> [ref_journal |-> ps[i][1], ref_journal_lc |-> lower(ps[i][1])]]

\* C16 as stated: of the three conditions joined with `and`, only the first
\* has an effect.  The filter cell keeps every pair whose lower-cased source
\* title is not 'null', a pair with equal lower-cased titles among them.
C16_FirstConditionOnly ==
    [][pc = "ZipAndFilter" =>
          ref_journal_df'.rows =
              KeptPairs([n \in DOMAIN ReferencePairs |->
                  /\ ReferencePairs[n][1] # Null
                  /\ lower(ReferencePairs[n][1]) # NullStr])]_vars

\* C16, amended: of the three conditions joined with `and`, only the last has
\* an effect.  The filter cell keeps exactly the pairs whose lower-cased
\* source and work titles are both not NULL and differ (and, by the trailing
\* filter, whose lower-cased source title is not 'null'): a pair with equal
\* lower-cased titles does not pass, a pair whose work title is the text
\* 'null' does.
C16_LastConditionOnly ==
    [][pc = "ZipAndFilter" =>
          ref_journal_df'.rows =
              KeptPairs([n \in DOMAIN ReferencePairs |->
                  /\ ReferencePairs[n][1] # Null
                  /\ ReferencePairs[n][2] # Null
                  /\ lower(ReferencePairs[n][1]) # lower(ReferencePairs[n][2])
                  /\ lower(ReferencePairs[n][1]) # NullStr])]_vars

\* ("NA", "Na") has not passed the filter, ("Na", 'null') has
C16_Witness ==
    /\ pc = "ShowRefs"
    /\ "ZipAndFilter" \notin errors
    /\ \E n \in DOMAIN ReferencePairs : ReferencePairs[n] = <<T_NA, T_Na>>
    /\ \E n \in DOMAIN ReferencePairs : ReferencePairs[n] = <<T_Na, NullStr>>
    /\ \A k \in DOMAIN ref_journal_df.rows : ref_journal_df.rows[k].ref_journal = T_Na
    /\ Len(ref_journal_df.rows) = 2

-----------------------------------------------------------------------------
(* C17 *)

\* what zip_ and explode make of one query row, as the claim has it
ZipRows(x, y) ==
    LET rows == Exploded(<<[ref_journal |-> x, ref_title |-> y]>>)
    IN  IF isinstance_list(x) /\ isinstance_list(y)
        THEN /\ Len(rows) = Min(Len(x.items), Len(y.items))
             /\ \A k \in DOMAIN rows :
                    rows[k] = [ref_journal |-> x.items[k], ref_title |-> y.items[k]]
        ELSE /\ ~zip_raises(x, y)
             /\ Len(rows) = 1
             /\ x = PyNone => rows[1].ref_journal = Null
             /\ y = PyNone => rows[1].ref_title = Null

\* C17: the zip helper's fallback yields a single pair.  For every row the
\* zip cell is about to read, two lists give min(len(x), len(y)) rows paired
\* by position, and anything else gives exactly one row (x, y).
C17_ZipFallbackSinglePair ==
    (pc = "ZipAndFilter" /\ "SelectRefs" \notin errors) =>
        \A i \in DOMAIN ref_journal_df.rows :
            ZipRows(ref_journal_df.rows[i].ref_journal, ref_journal_df.rows[i].ref_title)

-----------------------------------------------------------------------------
(* C18 *)

\* C18: the cells, run once each in document order from a fresh session, run
\* to completion.  When the first run has passed its last cell no cell has
\* raised, and the final report published_not_subscribed is bound.
C18_RunsToCompletion ==
    (pc = "done" /\ run = 1) =>
        /\ errors = {}
        /\ "published_not_subscribed" \in bound

-----------------------------------------------------------------------------
(* C19 *)

\* the two join conditions on one (lower-cased title, ISSN, eISSN) and one
\* subscription entry
SamePredicate(lc, issn, eissn, s) ==
    RefSubscriptionOn([ref_journal_lc |-> lc, serial_issn |-> issn,
                       serial_eissn |-> eissn], s)
        = PubSubscriptionOn([journal_lc |-> lc, serial_issn |-> issn,
                             serial_eissn |-> eissn], s)

\* C19: the citation variant and the publication variant use the same
\* subscription match predicate.  On every stage-1 row either join is about
\* to read and every subscription entry, the two join conditions evaluate to
\* the same result (true, false or unknown).
C19_SameMatchPredicate ==
    /\ pc = "JoinRefSubscriptions" =>
          \A i \in DOMAIN ref_journal_df.rows, j \in DOMAIN ss_df.rows :
              SamePredicate(ref_journal_df.rows[i].ref_journal_lc,
                            ref_journal_df.rows[i].serial_issn,
                            ref_journal_df.rows[i].serial_eissn, ss_df.rows[j])
    /\ pc = "JoinPubSubscriptions" =>
          \A i \in DOMAIN journal_df.rows, j \in DOMAIN ss_df.rows :
              SamePredicate(journal_df.rows[i].journal_lc,
                            journal_df.rows[i].serial_issn,
                            journal_df.rows[i].serial_eissn, ss_df.rows[j])

\* the publication join is about to match a serial to an entry through the
\* serial's ISSN and the entry's eISSN alone
C19_Witness ==
    /\ pc = "JoinPubSubscriptions"
    /\ \E i \in DOMAIN journal_df.rows, j \in DOMAIN ss_df.rows :
          /\ PubSubscriptionOn(journal_df.rows[i], ss_df.rows[j]) = "T"
          /\ journal_df.rows[i].journal_lc # ss_df.rows[j].Title
          /\ journal_df.rows[i].serial_issn = ss_df.rows[j].eISSN
          /\ journal_df.rows[i].serial_issn # ss_df.rows[j].ISSN
          /\ journal_df.rows[i].serial_eissn = Null

====
